---- MODULE Spec2Model ----
(***************************************************************************)
(* PuppyMatch: the interest-matching API (src/src/server.ts with           *)
(* src/src/auth.ts), and the earlier drafts of its interest store that     *)
(* keep one row per tag (src/src/db.ts, src/unnamed/part_004).             *)
(*                                                                         *)
(* Strings are sequences of one-character strings, so that trim() and      *)
(* toLowerCase() are computed and not assumed.                             *)
(***************************************************************************)
EXTENDS Integers, Sequences, FiniteSets, TLC

\* ------------------------------------------------------------------ bounds
\* Number of user ids (UUIDs) the users table can hand out.
MaxUsers == 2
\* Number of requests of the API between their two statements at the same time.
MaxReq == 1
\* Number of register requests hashing their password at the same time.
MaxAuthReq == 2
\* Length of the raw interest lists a client sends.
MaxListLen == 2
\* Number of users of the store the match query is run on.
MatchUsers == 3
\* Number of connections of the pool.
PoolSize == 2
\* Number of putUserInterests calls of the drafts running at the same time.
MaxPoolReq == 2
\* Number of times the hook's load effect runs.
MaxLoads == 2
\* Number of times the hook's save is called.
MaxSaves == 1

\* --------------------------------------------------------- program constants
\* z.string().max(64)
MaxTagLen == 64
\* z.array(...).max(500)
MaxTags == 500
\* if (password.length < 6)
MinPasswordLen == 6
\* usernameSchema: min(3), max(24)
MinUsernameLen == 3
MaxUsernameLen == 24
\* telegramHandleSchema: /^@[a-zA-Z0-9_]{5,32}$/
MinHandleLen == 5
MaxHandleLen == 32
\* avatarDataUrl: max(2_000_000)
MaxAvatarLen == 2000000
\* Number(req.query.limit) || 20
DefaultLimit == 20
\* Math.min(100, ...)
MaxLimit == 100

\* ------------------------------------------------------------------ strings
WS == " "

\* String.prototype.toLowerCase, on the characters the model uses.
LowerChar(c) ==
  CASE c = "H" -> "h"
    [] c = "I" -> "i"
    [] c = "A" -> "a"
    [] c = "X" -> "x"
    [] OTHER -> c

toLowerCase(s) == [i \in 1..Len(s) |-> LowerChar(s[i])]

RECURSIVE trimStart(_)
trimStart(s) ==
  IF s # <<>> /\ Head(s) = WS THEN trimStart(Tail(s)) ELSE s

RECURSIVE trimEnd(_)
trimEnd(s) ==
  IF s # <<>> /\ s[Len(s)] = WS THEN trimEnd(SubSeq(s, 1, Len(s) - 1)) ELSE s

\* String.prototype.trim
trim(s) == trimEnd(trimStart(s))

\* Code unit of a character (the order Postgres and JS compare text in).
CharCode(c) ==
  CASE c = " " -> 32
    [] c = "@" -> 64
    [] c = "A" -> 65
    [] c = "H" -> 72
    [] c = "I" -> 73
    [] c = "X" -> 88
    [] c = "a" -> 97
    [] c = "b" -> 98
    [] c = "g" -> 103
    [] c = "h" -> 104
    [] c = "i" -> 105
    [] c = "o" -> 111
    [] c = "p" -> 112
    [] c = "x" -> 120
    [] OTHER -> 0

\* s < t in text order.
RECURSIVE StrLess(_, _)
StrLess(s, t) ==
  IF t = <<>> THEN FALSE
  ELSE IF s = <<>> THEN TRUE
  ELSE IF CharCode(Head(s)) # CharCode(Head(t))
       THEN CharCode(Head(s)) < CharCode(Head(t))
       ELSE StrLess(Tail(s), Tail(t))

\* The elements of a sequence.
Range(s) == {s[i] : i \in 1..Len(s)}

\* All sequences over S of length at most n.
SeqsUpTo(S, n) == UNION {[1..k -> S] : k \in 0..n}

\* The ascending sequence of a finite set of strings.
RECURSIVE SortedSeq(_)
SortedSeq(S) ==
  IF S = {} THEN <<>>
  ELSE LET m == CHOOSE x \in S : \A y \in S \ {x} : StrLess(x, y)
       IN <<m>> \o SortedSeq(S \ {m})

\* ------------------------------------------------- spec: normalize (§3, §8)
\* First occurrences of a sequence, in order.
RECURSIVE Dedupe(_)
Dedupe(s) ==
  IF s = <<>> THEN <<>>
  ELSE LET r == Dedupe(SubSeq(s, 1, Len(s) - 1))
       IN IF s[Len(s)] \in Range(r) THEN r ELSE Append(r, s[Len(s)])

\* normalize(L): trim and lowercase every tag, deduplicate.
Normalize(L) == Dedupe([i \in 1..Len(L) |-> toLowerCase(trim(L[i]))])

\* ---------------------------------------------------------------- inputs
Tag_HiPad == <<" ", "H", "i", " ">>
Tag_hi == <<"h", "i">>
Tag_empty == <<>>
Tag_long == [i \in 1..(MaxTagLen + 1) |-> "a"]

\* The raw tags a client sends in the interest requests.
RawTags == {Tag_HiPad, Tag_hi, Tag_empty}

\* A list with one tag more than the schema allows.
List_tooMany == [i \in 1..(MaxTags + 1) |-> Tag_hi]

\* The raw interest lists a client sends: the short lists over RawTags, a
\* list with a tag that is too long, and a list that is too long.
RawLists == SeqsUpTo(RawTags, MaxListLen) \cup {<<Tag_long>>, List_tooMany}

\* Of these, a list of each kind: empty, with a tag to trim, with a duplicate,
\* and with an empty tag.
CoreLists == {<<>>, <<Tag_HiPad>>, <<Tag_hi, Tag_hi>>, <<Tag_empty>>}

\* ----------------------------------------------------------------- state
VARIABLES
  users,      \* table public.users: id -> [email, password_hash, username,
              \*   avatar_url, telegram_handle]
  nextId,     \* the next id gen_random_uuid() hands out
  interests,  \* table public.user_interests: user_id -> interests TEXT[]
  inflight,   \* the requests waiting for their second statement
  last,       \* the response sent last, with the request it answers
  lastPut,    \* history: user id -> the raw list of its last successful PUT
  interestRows, \* the drafts' table user_interests(user_id, interest): its rows
  conn,       \* the pool's connections: their open transaction
  hook        \* the frontend's useInterests hook: its state and its calls

vars ==
  <<users, nextId, interests, inflight, last, lastPut, interestRows, conn, hook>>

NULL == <<>>

\* A function with x removed from its domain.
Without(f, x) == [y \in DOMAIN f \ {x} |-> f[y]]

\* A function with f[x] = v, x added to its domain when needed.
With(f, x, v) == [y \in DOMAIN f \cup {x} |-> IF y = x THEN v ELSE f[y]]

\* -------------------------------------------------------------- tokens
JWT_SECRET == "server"

NoToken == [kind |-> "none", secret |-> "", sub |-> 0, expired |-> FALSE]
Malformed == [kind |-> "malformed", secret |-> "", sub |-> 0, expired |-> FALSE]
Jwt(secret, sub, expired) ==
  [kind |-> "jwt", secret |-> secret, sub |-> sub, expired |-> expired]

\* jwt.sign({ sub: userId }, JWT_SECRET, { expiresIn: "7d" })
sign(userId) == Jwt(JWT_SECRET, userId, FALSE)

\* jwt.verify, then the subject if it is a string; 0 stands for null.
verifyToken(token) ==
  IF token.kind = "jwt" /\ token.secret = JWT_SECRET /\ ~token.expired
     /\ token.sub # 0
  THEN token.sub
  ELSE 0

\* What a client can put in the Authorization header: nothing, garbage, a
\* token it signed itself, or a token the server issued, before or after its
\* expiry.
Tokens ==
  {NoToken, Malformed}
    \cup {Jwt("other", u, FALSE) : u \in 1..(nextId - 1)}
    \cup {Jwt(JWT_SECRET, u, e) : u \in 1..(nextId - 1), e \in BOOLEAN}

\* ------------------------------------------------------------ responses
NoMatches == <<>>

\* res.json({ ok: true }): a body without a saved count.
NoSaved == -1

\* A field of the body of a profile request: undefined, or a string.
Undefined == [given |-> FALSE, v |-> <<>>]
Given(v) == [given |-> TRUE, v |-> v]

\* A body without any of the fields.
NoProfile ==
  [username |-> Undefined, avatarDataUrl |-> Undefined, telegramHandle |-> Undefined]

\* A response: the route, the verified subject (0: none), whether that subject
\* was missing from users when the request arrived (ghost), the work done for
\* the request before the response (work), the body the handler read (raw),
\* and what was sent (saved: the count in the body; limit: the LIMIT of the
\* match query that produced matches; body: the fields of the body of a
\* register or login response), and the body a profile request came with
\* (profile).
Resp(op, uid, status, error, message) ==
  [op |-> op, uid |-> uid, status |-> status, error |-> error,
   message |-> message,
   ghost |-> uid # 0 /\ uid \notin DOMAIN users, work |-> {},
   raw |-> <<>>, tags |-> <<>>, saved |-> NoSaved,
   limit |-> 0, matches |-> NoMatches,
   rawEmail |-> <<>>, email |-> <<>>, password |-> <<>>,
   token |-> NoToken, userId |-> 0, body |-> {}, profile |-> NoProfile]

Msg_sessionInvalid == "Your session is no longer valid. Please log in again."

\* requireAuth: the 401 it sends, or "next" with req.userId.
requireAuth(token) ==
  IF token.kind = "none"
  THEN [pass |-> FALSE, userId |-> 0, error |-> "missing_token",
        message |-> "You are not signed in. Please log in to continue."]
  ELSE IF verifyToken(token) = 0
       THEN [pass |-> FALSE, userId |-> 0, error |-> "invalid_token",
             message |-> Msg_sessionInvalid]
       ELSE [pass |-> TRUE, userId |-> verifyToken(token), error |-> "",
             message |-> ""]

\* SELECT 1 FROM public.users WHERE id = $1: rowCount > 0
UserExists(uid) == uid \in DOMAIN users

\* --------------------------------------------------- interestsSchema (zod)
\* A tag schema without the max(64).
TagAccepted_anyLength(raw) == Len(trim(raw)) >= 1

\* One element: transform(trim), then min(1) and max(64).
TagAccepted(raw) == Len(trim(raw)) >= 1 /\ Len(trim(raw)) <= MaxTagLen

\* interestsSchema.safeParse(req.body) for a body { interests: raw }; data is
\* there on success only.
interestsSchema(raw) ==
  LET success == Len(raw) <= MaxTags /\ \A i \in 1..Len(raw) : TagAccepted(raw[i])
  IN [success |-> success,
      data |-> IF success THEN [i \in 1..Len(raw) |-> trim(raw[i])] ELSE <<>>]

\* ------------------------------------------------------------- bcryptjs
\* bcrypt.hash(password, 10): a value that is not the password.
bcryptHash(password) == [bcrypt |-> password]

\* bcrypt.compare(password, hash)
bcryptCompare(password, hash) == hash.bcrypt = password

\* ------------------------------------------------------- auth.ts: inputs
Email_A == <<"A", "@", "x">>
Email_aX == <<"a", "@", "X">>
Email_aPad == <<" ", "a", "@", "x", " ">>
Email_b == <<"b", "@", "x">>
Email_h == <<"h", "@", "x">>

\* The emails of the users of the stores that are drawn, as they typed them.
MatchEmails == <<Email_aPad, Email_b, Email_h>>

\* body.email as the clients send it ("" when the field is missing).
RawEmails == {Email_A, Email_aX, Email_aPad, Email_b, <<>>}

Pw_good == <<"p", "p", "p", "p", "p", "p">>
Pw_other == <<"x", "x", "x", "x", "x", "x">>
Pw_short == <<"p", "p", "p", "p", "p">>

\* body.password as the clients send it ("" when the field is missing).
Passwords == {Pw_good, Pw_other, Pw_short, <<>>}

\* ------------------------------------------------- auth.ts: POST /register
\* A row of users with this email exists (the UNIQUE constraint's conflict).
EmailTaken(email) == \E u \in DOMAIN users : users[u].email = email

\* The row INSERT INTO users (email, password_hash) makes: the profile columns
\* have no default.
NewUser(email, hash) ==
  [email |-> email, password_hash |-> hash, username |-> NULL,
   avatar_url |-> NULL, telegram_handle |-> NULL]

\* The email kept as it was typed.
normalizedEmail_asTyped(rawEmail) == rawEmail

\* const email = rawEmail.toLowerCase()
normalizedEmail(rawEmail) == toLowerCase(rawEmail)

\* An INSERT that no UNIQUE constraint on email stops.
InsertUser_noConflict(email, hash) ==
  [users |-> With(users, nextId,
                  NewUser(email, hash)),
   rows |-> <<nextId>>]

\* INSERT INTO users (email, password_hash) ... ON CONFLICT (email) DO NOTHING
\* RETURNING id: the table afterwards, and the returned rows.
InsertUser(email, hash) ==
  IF EmailTaken(email)
  THEN [users |-> users, rows |-> <<>>]
  ELSE [users |-> With(users, nextId,
                       NewUser(email, hash)),
        rows |-> <<nextId>>]

\* res.json({ token, user: { id: userId, email } })
AuthBody == {"token", "user.id", "user.email"}

\* The register request with these fields, up to "await bcrypt.hash": the
\* 400 it sends, or nothing yet.
RegisterArrival(bodyEmail, bodyPassword) ==
  LET rawEmail == trim(bodyEmail)
      base == [Resp("register", 0, 400, "", "") EXCEPT
                 !.rawEmail = bodyEmail, !.email = normalizedEmail(rawEmail),
                 !.password = bodyPassword]
  IN IF rawEmail = <<>> \/ bodyPassword = <<>>
     THEN [base EXCEPT !.error = "invalid_body",
             !.message = "Please provide both an email (or username) and a password."]
     ELSE IF Len(bodyPassword) < MinPasswordLen
     THEN [base EXCEPT !.error = "weak_password",
             !.message = "Your password is too short. It must be at least 6 characters."]
     ELSE [base EXCEPT !.status = 0]

\* The register request from its INSERT on: a is RegisterArrival's record of a
\* request that passed the checks.
RegisterInsert(a) ==
  LET q == InsertUser(a.email, bcryptHash(a.password))
  IN IF Len(q.rows) = 0
     THEN /\ last' = [a EXCEPT !.status = 400, !.error = "email_taken",
                        !.message = "That email is already registered. Try logging in instead.",
                        !.work = {"insertUser"}]
          /\ users' = q.users
          /\ UNCHANGED nextId
     ELSE /\ nextId <= MaxUsers
          /\ users' = q.users
          /\ nextId' = nextId + 1
          /\ last' = [a EXCEPT !.status = 200, !.token = sign(q.rows[1]),
                        !.userId = q.rows[1], !.body = AuthBody,
                        !.work = {"insertUser"}]

\* POST /auth/register as one step: nothing of the store is read before the
\* INSERT, so the handler is its INSERT.
Register(bodyEmail, bodyPassword) ==
  LET a == RegisterArrival(bodyEmail, bodyPassword)
  IN /\ IF a.status # 0
        THEN last' = a /\ UNCHANGED <<users, nextId>>
        ELSE RegisterInsert(a)
     /\ UNCHANGED <<interests, inflight, lastPut, interestRows, conn, hook>>

\* POST /auth/register in its two steps, for requests that overlap: the
\* checks and the hash, ...
StartRegister(bodyEmail, bodyPassword) ==
  LET a == RegisterArrival(bodyEmail, bodyPassword)
  IN /\ IF a.status # 0
        THEN last' = a /\ UNCHANGED inflight
        ELSE /\ Cardinality(inflight) < MaxAuthReq
             /\ inflight' = inflight \cup {a}
             /\ UNCHANGED last
     /\ UNCHANGED <<users, nextId, interests, lastPut, interestRows, conn, hook>>

\* ... and the INSERT with the response.
FinishRegister(a) ==
  /\ a.op = "register"
  /\ RegisterInsert(a)
  /\ inflight' = inflight \ {a}
  /\ UNCHANGED <<interests, lastPut, interestRows, conn, hook>>

\* ---------------------------------------------------- auth.ts: POST /login
\* SELECT id, password_hash FROM users WHERE email = $1
FindByEmail(email) == {u \in DOMAIN users : users[u].email = email}

\* A response that tells the caller the email is not registered.
loginUnknownEmail_reveals ==
  [status |-> 404, error |-> "user_not_found",
   message |-> "No account with this email"]

\* if (q.rowCount === 0) return res.status(401).json(...)
loginUnknownEmail ==
  [status |-> 401, error |-> "invalid_credentials",
   message |-> "Invalid username/password combination"]

\* if (!ok) return res.status(401).json(...)
loginWrongPassword ==
  [status |-> 401, error |-> "invalid_credentials",
   message |-> "Invalid username/password combination"]

Login(bodyEmail, bodyPassword) ==
  LET rawEmail == trim(bodyEmail)
      password == bodyPassword
      email == normalizedEmail(rawEmail)
      q == FindByEmail(email)
      base == [Resp("login", 0, 200, "", "") EXCEPT
                 !.rawEmail = bodyEmail, !.email = email, !.password = password]
      failed(f) == [base EXCEPT !.status = f.status, !.error = f.error,
                                !.message = f.message, !.work = {"findByEmail"}]
  IN /\ IF rawEmail = <<>> \/ password = <<>>
        THEN last' = [base EXCEPT !.status = 400, !.error = "invalid_body",
                        !.message = "Please provide both your email (or username) and password."]
        ELSE IF q = {}
        THEN last' = failed(loginUnknownEmail)
        ELSE LET id == CHOOSE u \in q : TRUE
             IN IF ~bcryptCompare(password, users[id].password_hash)
                THEN last' = failed(loginWrongPassword)
                ELSE last' = [base EXCEPT !.token = sign(id), !.userId = id,
                                          !.body = AuthBody,
                                          !.work = {"findByEmail"}]
     /\ UNCHANGED <<users, nextId, interests, inflight, lastPut, interestRows, conn, hook>>

\* ------------------------------------- part_000: the draft's POST /register
\* authRouter.post("/register"): the fields are taken as they are sent, and
\* checked only for being there.
AuthRouterRegister(bodyEmail, bodyPassword) ==
  LET base == [Resp("authRouter.register", 0, 400, "email and password required", "")
                 EXCEPT !.rawEmail = bodyEmail, !.email = toLowerCase(bodyEmail),
                        !.password = bodyPassword]
      q == InsertUser(toLowerCase(bodyEmail), bcryptHash(bodyPassword))
  IN /\ IF bodyEmail = <<>> \/ bodyPassword = <<>>
        THEN last' = base /\ UNCHANGED <<users, nextId>>
        ELSE IF Len(q.rows) = 0
        THEN /\ last' = [base EXCEPT !.status = 409,
                           !.error = "Email already registered",
                           !.work = {"insertUser"}]
             /\ UNCHANGED <<users, nextId>>
        ELSE /\ nextId <= MaxUsers
             /\ users' = q.users
             /\ nextId' = nextId + 1
             /\ last' = [base EXCEPT !.status = 201, !.error = "",
                           !.token = sign(q.rows[1]), !.userId = q.rows[1],
                           !.body = AuthBody, !.work = {"insertUser"}]
     /\ UNCHANGED <<interests, inflight, lastPut, interestRows, conn, hook>>

\* ---------------------------------------- users/user_interests: the schema
\* DELETE FROM users WHERE id = u (an operator's statement; no route does it).
\* user_interests.user_id REFERENCES users(id) ON DELETE CASCADE.
DeleteUser(u) ==
  /\ u \in DOMAIN users
  /\ users' = Without(users, u)
  /\ interests' = Without(interests, u)
  /\ UNCHANGED <<nextId, inflight, last, lastPut, interestRows, conn, hook>>

\* ----------------------------------------------- server.ts: the requests
EmptyFn == [x \in {} |-> 0]

\* A request between its first and its second statement.
Pending(op, uid, raw, data, limit, work) ==
  [op |-> op, uid |-> uid, raw |-> raw, data |-> data, limit |-> limit,
   work |-> work, ghost |-> uid \notin DOMAIN users]

CanAccept == Cardinality(inflight) < MaxReq

\* The same read without the "?? []": a user without a row has no list.
SelectInterests_noDefault(uid) ==
  IF uid \in DOMAIN interests THEN interests[uid] ELSE <<<<"n", "u", "l", "l">>>>

\* SELECT interests FROM public.user_interests WHERE user_id = $1, then
\* rows[0]?.interests ?? []
SelectInterests(uid) == IF uid \in DOMAIN interests THEN interests[uid] ELSE <<>>

\* GET /users/me/interests, up to its first await's result.
StartGetInterests(token) ==
  LET auth == requireAuth(token)
      uid == auth.userId
  IN /\ IF ~auth.pass
        THEN /\ last' = Resp("getInterests", 0, 401, auth.error, auth.message)
             /\ UNCHANGED inflight
        ELSE IF ~UserExists(uid)
        THEN /\ last' = [Resp("getInterests", uid, 401, "user_not_found_for_token",
                             Msg_sessionInvalid)
                           EXCEPT !.work = {"selectUser"}]
             /\ UNCHANGED inflight
        ELSE /\ CanAccept
             /\ inflight' = inflight \cup
                  {Pending("getInterests", uid, <<>>, <<>>, 0, {"selectUser"})}
             /\ UNCHANGED last
     /\ UNCHANGED <<users, nextId, interests, lastPut, interestRows, conn, hook>>

\* GET /users/me/interests, its second query and the response.
FinishGetInterests(r) ==
  /\ r.op = "getInterests"
  /\ last' = [Resp(r.op, r.uid, 200, "", "") EXCEPT
                !.ghost = r.ghost,
                !.work = r.work \cup {"readInterests"},
                !.tags = SelectInterests(r.uid)]
  /\ inflight' = inflight \ {r}
  /\ UNCHANGED <<users, nextId, interests, lastPut, interestRows, conn, hook>>

\* PUT /users/me/interests, up to its first await's result.
StartPutInterests(token, raw) ==
  LET auth == requireAuth(token)
      uid == auth.userId
      parsed == interestsSchema(raw)
  IN /\ IF ~auth.pass
        THEN /\ last' = Resp("putInterests", 0, 401, auth.error, auth.message)
             /\ UNCHANGED inflight
        ELSE IF ~parsed.success
        THEN /\ last' = [Resp("putInterests", uid, 400, "invalid_body",
                             "path: issue.message")
                           EXCEPT !.work = {"validate"}, !.raw = raw]
             /\ UNCHANGED inflight
        ELSE IF ~UserExists(uid)
        THEN /\ last' = [Resp("putInterests", uid, 401, "user_not_found_for_token",
                             Msg_sessionInvalid)
                           EXCEPT !.work = {"validate", "selectUser"}, !.raw = raw]
             /\ UNCHANGED inflight
        ELSE /\ CanAccept
             /\ inflight' = inflight \cup
                  {Pending("putInterests", uid, raw, parsed.data, 0,
                           {"validate", "selectUser"})}
             /\ UNCHANGED last
     /\ UNCHANGED <<users, nextId, interests, lastPut, interestRows, conn, hook>>

\* The upsert on a table whose user_id does not reference users(id).
UpsertInterests_noForeignKey(uid, data) ==
  [ok |-> TRUE, interests |-> With(interests, uid, data)]

\* INSERT INTO public.user_interests ... ON CONFLICT (user_id) DO UPDATE SET
\* interests = EXCLUDED.interests: the table afterwards. The foreign key to
\* users(id) makes the statement fail for a user that is gone.
UpsertInterests(uid, data) ==
  IF uid \in DOMAIN users
  THEN [ok |-> TRUE, interests |-> With(interests, uid, data)]
  ELSE [ok |-> FALSE, interests |-> interests]

\* PUT /users/me/interests, its upsert and the response.
FinishPutInterests(r) ==
  LET q == UpsertInterests(r.uid, r.data)
  IN /\ r.op = "putInterests"
     /\ interests' = q.interests
     /\ IF q.ok
        THEN /\ last' = [Resp(r.op, r.uid, 200, "", "") EXCEPT
                           !.ghost = r.ghost, !.raw = r.raw,
                           !.work = r.work \cup {"writeInterests"}]
             /\ lastPut' = With(lastPut, r.uid, r.raw)
        ELSE /\ last' = [Resp(r.op, r.uid, 500, "put_interests_failed",
                             "Could not save interests.") EXCEPT
                           !.ghost = r.ghost, !.raw = r.raw,
                           !.work = r.work \cup {"writeInterests"}]
             /\ UNCHANGED lastPut
     /\ inflight' = inflight \ {r}
     /\ UNCHANGED <<users, nextId, interestRows, conn, hook>>

\* ------------------------------------------- server.ts: GET /users/me/matches
Min(a, b) == IF a < b THEN a ELSE b
Max(a, b) == IF a > b THEN a ELSE b

\* req.query.limit: absent, or a string that Number() reads as NaN or as n.
NoLimit == [given |-> FALSE, nan |-> TRUE, n |-> 0]
LimitNaN == [given |-> TRUE, nan |-> TRUE, n |-> 0]
LimitOf(n) == [given |-> TRUE, nan |-> FALSE, n |-> n]

LimitQueries == {NoLimit, LimitNaN, LimitOf(0), LimitOf(1), LimitOf(-5), LimitOf(1000)}

\* Math.max(1, Math.min(100, Number(req.query.limit) || 20))
EffectiveLimit(q) ==
  LET number == IF q.nan \/ q.n = 0 THEN DefaultLimit ELSE q.n
  IN Max(1, Min(MaxLimit, number))

\* COUNT(*) over unnest(ui.interests) JOIN unnest(my.interests) ON equality:
\* one joined row per pair of equal elements.
Overlap(theirs, my) ==
  Cardinality({p \in (1..Len(theirs)) \X (1..Len(my)) : theirs[p[1]] = my[p[2]]})

\* ARRAY_AGG(mi.i), without DISTINCT: the joined values as they come.
Common_notDistinct(theirs, my) ==
  LET joined(x) == x \in Range(theirs)
  IN SelectSeq(my, joined)

\* ARRAY_AGG(DISTINCT mi.i): the distinct joined values, which the
\* aggregate's DISTINCT sorts.
Common(theirs, my) == SortedSeq(Range(theirs) \cap Range(my))

\* The rows of a query without "WHERE ui.user_id <> my.user_id".
MatchRows_withSelf(uid, my) ==
  {[id |-> c, username |-> users[c].username,
    overlap |-> Overlap(interests[c], my),
    common |-> Common(interests[c], my)] :
     c \in {d \in DOMAIN interests \cap DOMAIN users :
              Overlap(interests[d], my) > 0}}

\* FROM user_interests ui JOIN users u ... WHERE ui.user_id <> my.user_id
\* GROUP BY u.id ... HAVING COUNT(*) > 0 (a group exists only for joined rows).
MatchRows(uid, my) ==
  {[id |-> c, username |-> users[c].username,
    overlap |-> Overlap(interests[c], my),
    common |-> Common(interests[c], my)] :
     c \in {d \in (DOMAIN interests \cap DOMAIN users) \ {uid} :
              Overlap(interests[d], my) > 0}}

\* ORDER BY overlap DESC, COALESCE(u.username, '') ASC: a before b is allowed.
OrderedBefore(a, b) ==
  \/ a.overlap > b.overlap
  \/ a.overlap = b.overlap /\ ~StrLess(b.username, a.username)

\* The orders the ORDER BY allows for the rows (rows equal in both keys come
\* in any order), cut by LIMIT.
QueryMatches(uid, my, limit) ==
  LET rows == MatchRows(uid, my)
      n == Cardinality(rows)
      orders == {s \in [1..n -> rows] :
                   /\ \A i, j \in 1..n : i # j => s[i] # s[j]
                   /\ \A i, j \in 1..n : i < j => OrderedBefore(s[i], s[j])}
  IN {SubSeq(s, 1, Min(limit, n)) : s \in orders}

\* A handler without the short cut for a requester without interests.
noInterests_never(myInterests) == FALSE

\* if (myInterests.length === 0) return res.json([])
noInterests(myInterests) == Len(myInterests) = 0

\* GET /users/me/matches, up to its first await's result.
StartGetMatches(token, limitQuery) ==
  LET auth == requireAuth(token)
      uid == auth.userId
      myInterests == SelectInterests(uid)
  IN /\ IF ~auth.pass
        THEN /\ last' = Resp("getMatches", 0, 401, auth.error, auth.message)
             /\ UNCHANGED inflight
        ELSE IF noInterests(myInterests)
        THEN /\ last' = [Resp("getMatches", uid, 200, "", "")
                           EXCEPT !.work = {"readInterests"}]
             /\ UNCHANGED inflight
        ELSE /\ CanAccept
             /\ inflight' = inflight \cup
                  {Pending("getMatches", uid, limitQuery, myInterests,
                           EffectiveLimit(limitQuery), {"readInterests"})}
             /\ UNCHANGED last
     /\ UNCHANGED <<users, nextId, interests, lastPut, interestRows, conn, hook>>

\* GET /users/me/matches, the match query and the response.
FinishGetMatches(r) ==
  /\ r.op = "getMatches"
  /\ \E rows \in QueryMatches(r.uid, r.data, r.limit) :
       last' = [Resp(r.op, r.uid, 200, "", "") EXCEPT
                  !.ghost = r.ghost,
                  !.work = r.work \cup {"matchQuery"},
                  !.tags = r.data,
                  !.limit = r.limit,
                  !.matches = rows]
  /\ inflight' = inflight \ {r}
  /\ UNCHANGED <<users, nextId, interests, lastPut, interestRows, conn, hook>>

\* ------------------------------------------------------- the API (server.ts)
\* ------------------------------ part_004 (the draft's db module): the pool
\* What PostgreSQL does with the statements the drafts send, each through
\* pool.query, which runs it on whichever connection of the pool is free.
\* A connection is outside a transaction ("idle"), inside one ("open"), or
\* inside one that a failed statement has aborted; del and ins are the rows
\* its transaction has deleted and inserted and not yet committed.
Conns == 1..PoolSize

IdleConn == [tx |-> "idle", del |-> {}, ins |-> {}]

RowsOf(uid, table) == {x \in table : x[1] = uid}

\* The table as a statement on connection c sees it (READ COMMITTED).
Visible(c) ==
  IF conn[c].tx = "open" THEN (interestRows \ conn[c].del) \cup conn[c].ins ELSE interestRows

\* Rows whose deletion, and keys whose insertion, other connections'
\* transactions have not yet committed: a statement that touches them waits.
LockedByOthers(c) == UNION {conn[d].del : d \in Conns \ {c}}
PendingByOthers(c) == UNION {conn[d].ins : d \in Conns \ {c}}

Outcome(ok, table, cn) == [ok |-> ok, rows |-> table, conn |-> cn]

\* BEGIN
QueryBegin(c) ==
  CASE conn[c].tx = "idle" ->
         Outcome(TRUE, interestRows, [conn EXCEPT ![c].tx = "open"])
    [] conn[c].tx = "open" -> Outcome(TRUE, interestRows, conn)
    [] OTHER -> Outcome(FALSE, interestRows, conn)

\* DELETE FROM user_interests WHERE user_id = $1
CanDelete(c, uid) == RowsOf(uid, interestRows) \cap LockedByOthers(c) = {}

QueryDelete(c, uid) ==
  CASE conn[c].tx = "idle" -> Outcome(TRUE, interestRows \ RowsOf(uid, interestRows), conn)
    [] conn[c].tx = "open" ->
         Outcome(TRUE, interestRows,
                 [conn EXCEPT ![c].del = @ \cup RowsOf(uid, interestRows),
                              ![c].ins = @ \ RowsOf(uid, @)])
    [] OTHER -> Outcome(FALSE, interestRows, conn)

\* INSERT INTO user_interests (user_id, interest) VALUES ($1, $2): the primary
\* key (user_id, interest) refuses a row that is there already.
CanInsert(c, uid, interest) ==
  /\ <<uid, interest>> \notin PendingByOthers(c)
  /\ <<uid, interest>> \notin LockedByOthers(c)

QueryInsert(c, uid, interest) ==
  CASE conn[c].tx = "idle" ->
         IF <<uid, interest>> \in interestRows
         THEN Outcome(FALSE, interestRows, conn)
         ELSE Outcome(TRUE, interestRows \cup {<<uid, interest>>}, conn)
    [] conn[c].tx = "open" ->
         IF <<uid, interest>> \in Visible(c)
         THEN Outcome(FALSE, interestRows, [conn EXCEPT ![c].tx = "aborted"])
         ELSE Outcome(TRUE, interestRows, [conn EXCEPT ![c].ins = @ \cup {<<uid, interest>>}])
    [] OTHER -> Outcome(FALSE, interestRows, conn)

\* COMMIT (of an aborted transaction: its rollback; outside one: nothing)
QueryCommit(c) ==
  IF conn[c].tx = "open"
  THEN Outcome(TRUE, (interestRows \ conn[c].del) \cup conn[c].ins,
               [conn EXCEPT ![c] = IdleConn])
  ELSE Outcome(TRUE, interestRows, [conn EXCEPT ![c] = IdleConn])

\* ROLLBACK
QueryRollback(c) == Outcome(TRUE, interestRows, [conn EXCEPT ![c] = IdleConn])

\* The tags the drafts' clients send, and their lists.
Tag_go == <<"g", "o">>
PoolLists == {<<Tag_hi>>, <<Tag_go>>}

TagsOf(table) == {x[2] : x \in table}

PoolCalls == {r \in inflight : r.op = "putUserInterests"}

\* A putUserInterests call under way: the statement it sends next (pc, and i
\* for the INSERTs), and for the history the set stored when it began
\* (before), whether no connection had a transaction then (clean), the lists
\* of the calls it has overlapped with (overlaps) and of those that have
\* reported success meanwhile (succeeded).
PoolCall(uid, list, pc) ==
  [op |-> "putUserInterests", uid |-> uid, list |-> list, pc |-> pc, i |-> 1,
   before |-> TagsOf(RowsOf(uid, interestRows)),
   clean |-> \A c \in Conns : conn[c] = IdleConn,
   overlaps |-> {x.list : x \in PoolCalls},
   succeeded |-> {}]

PoolResp(r, status, error) ==
  [Resp(r.op, r.uid, status, error, "") EXCEPT
     !.tags = r.list,
     !.saved = IF status = 200 THEN Len(r.list) ELSE NoSaved]

\* putUserInterests(userId, interests, p), up to the answer to its BEGIN,
\* which is outside the try block.
StartPutUserInterests(uid, list) ==
  /\ uid \in DOMAIN users
  /\ Cardinality(PoolCalls) < MaxPoolReq
  /\ \A x \in PoolCalls : x.list # list
  /\ \E c \in Conns :
       LET q == QueryBegin(c)
           r == PoolCall(uid, list, "DELETE")
       IN /\ conn' = q.conn
          /\ IF q.ok
             THEN /\ inflight' = {[x EXCEPT !.overlaps = @ \cup {list}] : x \in inflight}
                                   \cup {r}
                  /\ UNCHANGED last
             ELSE /\ last' = PoolResp(r, 500, "save_failed")
                  /\ UNCHANGED inflight
  /\ UNCHANGED <<users, nextId, interests, lastPut, interestRows, hook>>

\* ... its DELETE, ...
PutUserInterestsDelete(r) ==
  /\ r.op = "putUserInterests"
  /\ r.pc = "DELETE"
  /\ \E c \in Conns :
       LET q == QueryDelete(c, r.uid)
           pc == IF ~q.ok THEN "ROLLBACK"
                 ELSE IF Len(r.list) = 0 THEN "COMMIT" ELSE "INSERT"
       IN /\ CanDelete(c, r.uid)
          /\ interestRows' = q.rows
          /\ conn' = q.conn
          /\ inflight' = (inflight \ {r}) \cup {[r EXCEPT !.pc = pc]}
  /\ UNCHANGED <<users, nextId, interests, last, lastPut, hook>>

\* ... one INSERT of its loop, ...
PutUserInterestsInsert(r) ==
  /\ r.op = "putUserInterests"
  /\ r.pc = "INSERT"
  /\ \E c \in Conns :
       LET q == QueryInsert(c, r.uid, r.list[r.i])
           pc == IF ~q.ok THEN "ROLLBACK"
                 ELSE IF r.i = Len(r.list) THEN "COMMIT" ELSE "INSERT"
       IN /\ CanInsert(c, r.uid, r.list[r.i])
          /\ interestRows' = q.rows
          /\ conn' = q.conn
          /\ inflight' = (inflight \ {r}) \cup
                           {[r EXCEPT !.pc = pc, !.i = IF q.ok THEN @ + 1 ELSE @]}
  /\ UNCHANGED <<users, nextId, interests, last, lastPut, hook>>

\* ... its COMMIT and "return interests.length", ...
PutUserInterestsCommit(r) ==
  /\ r.op = "putUserInterests"
  /\ r.pc = "COMMIT"
  /\ \E c \in Conns :
       LET q == QueryCommit(c)
       IN /\ interestRows' = q.rows
          /\ conn' = q.conn
  /\ inflight' = {[x EXCEPT !.succeeded = @ \cup {r.list}] : x \in inflight \ {r}}
  /\ last' = PoolResp(r, 200, "")
  /\ UNCHANGED <<users, nextId, interests, lastPut, hook>>

\* ... or, after a statement that failed, its ROLLBACK and "throw e".
PutUserInterestsRollback(r) ==
  /\ r.op = "putUserInterests"
  /\ r.pc = "ROLLBACK"
  /\ \E c \in Conns :
       LET q == QueryRollback(c)
       IN /\ interestRows' = q.rows
          /\ conn' = q.conn
  /\ inflight' = inflight \ {r}
  /\ last' = PoolResp(r, 500, "save_failed")
  /\ UNCHANGED <<users, nextId, interests, lastPut, hook>>

\* getUserInterests(userId, p): SELECT interest FROM user_interests WHERE
\* user_id = $1 ORDER BY interest, on a connection of the pool; the statement
\* fails on a connection whose transaction is aborted.
GetUserInterests(uid) ==
  /\ uid \in DOMAIN users
  /\ \E c \in Conns :
       IF conn[c].tx = "aborted"
       THEN last' = Resp("getUserInterests", uid, 500, "load_failed", "")
       ELSE last' = [Resp("getUserInterests", uid, 200, "", "") EXCEPT
                       !.tags = SortedSeq(TagsOf(RowsOf(uid, Visible(c))))]
  /\ UNCHANGED <<users, nextId, interests, inflight, lastPut, interestRows, conn, hook>>

\* ----------------------------------------- server.ts: PUT /users/me/profile
\* The characters of the model that [a-zA-Z0-9_] matches.
WordChars == {"a", "b", "g", "h", "i", "o", "p", "x", "y",
              "A", "B", "H", "I", "X", "1", "_"}

\* s.startsWith(prefix)
startsWith(s, prefix) ==
  Len(s) >= Len(prefix) /\ SubSeq(s, 1, Len(prefix)) = prefix

\* usernameSchema
usernameSchema(s) ==
  /\ Len(s) >= MinUsernameLen
  /\ Len(s) <= MaxUsernameLen
  /\ \A i \in 1..Len(s) : s[i] \in WordChars

\* telegramHandleSchema
telegramHandleSchema(s) ==
  /\ Len(s) >= 1 /\ s[1] = "@"
  /\ Len(s) - 1 >= MinHandleLen
  /\ Len(s) - 1 <= MaxHandleLen
  /\ \A i \in 2..Len(s) : s[i] \in WordChars

DataImage == <<"d", "a", "t", "a", ":", "i", "m", "a", "g", "e", "/">>

\* profilePutSchema.safeParse(req.body).success
profilePutSchema(body) ==
  /\ body.username.given => usernameSchema(body.username.v)
  /\ body.avatarDataUrl.given =>
       /\ startsWith(body.avatarDataUrl.v, DataImage)
       /\ Len(body.avatarDataUrl.v) <= MaxAvatarLen
  /\ body.telegramHandle.given => telegramHandleSchema(body.telegramHandle.v)

\* The bodies the clients send.
Name_bob == <<"b", "o", "b">>
Name_Bob == <<"B", "o", "b">>
Name_bo == <<"b", "o">>
Name_b_b == <<"b", " ", "b">>
Avatar_png == DataImage \o <<"p">>
Avatar_http == <<"h", "t", "t", "p">>
Handle_bobby == <<"@", "b", "o", "b", "b", "y">>
Handle_bob == <<"@", "b", "o", "b">>

ProfileBodies ==
  [username : {Undefined, Given(Name_bob), Given(Name_Bob), Given(Name_bo)},
   avatarDataUrl : {Undefined, Given(Avatar_png), Given(Avatar_http)},
   telegramHandle : {Undefined, Given(Handle_bobby)}]
     \cup {[NoProfile EXCEPT !.username = Given(Name_b_b)],
           [NoProfile EXCEPT !.telegramHandle = Given(Handle_bob)]}

\* A users table without UNIQUE on username.
UsernameTaken_noUnique(uid, username) == FALSE

\* The UNIQUE constraint on users.username refuses the value for the row uid:
\* another row has it.
UsernameTaken(uid, username) ==
  \E v \in DOMAIN users \ {uid} : users[v].username = username

\* UPDATE public.users SET <the given fields> WHERE id = $p RETURNING ...:
\* the error code if it fails, the table afterwards and the returned rows.
UpdateUser(uid, body) ==
  IF uid \notin DOMAIN users
  THEN [code |-> "", users |-> users, rows |-> <<>>]
  ELSE IF body.username.given /\ UsernameTaken(uid, body.username.v)
  THEN [code |-> "23505", users |-> users, rows |-> <<>>]
  ELSE LET row == [users[uid] EXCEPT
                     !.username = IF body.username.given
                                  THEN body.username.v ELSE @,
                     !.avatar_url = IF body.avatarDataUrl.given
                                    THEN body.avatarDataUrl.v ELSE @,
                     !.telegram_handle = IF body.telegramHandle.given
                                         THEN body.telegramHandle.v ELSE @]
       IN [code |-> "", users |-> [users EXCEPT ![uid] = row], rows |-> <<uid>>]

\* SELECT id, email, username, avatar_url, telegram_handle FROM public.users
\* WHERE id = $1
SelectUser(uid) ==
  [code |-> "", users |-> users,
   rows |-> IF uid \in DOMAIN users THEN <<uid>> ELSE <<>>]

\* PUT /users/me/profile: the handler has one statement, so it is one step.
PutProfile(token, body) ==
  LET auth == requireAuth(token)
      uid == auth.userId
      updates == {f \in {"username", "avatarDataUrl", "telegramHandle"} :
                    body[f].given}
      q == IF updates # {} THEN UpdateUser(uid, body) ELSE SelectUser(uid)
  IN /\ IF ~auth.pass
        THEN /\ last' = [Resp("putProfile", 0, 401, auth.error, auth.message)
                           EXCEPT !.profile = body]
             /\ UNCHANGED users
        ELSE IF ~profilePutSchema(body)
        THEN /\ last' = [Resp("putProfile", uid, 400, "invalid_body",
                             "path: issue.message")
                           EXCEPT !.work = {"validate"}, !.profile = body]
             /\ UNCHANGED users
        ELSE IF q.code = "23505"
        THEN /\ last' = [Resp("putProfile", uid, 409, "username_taken",
                             "That username is already taken.")
                           EXCEPT !.work = {"validate", "updateUser"},
                                  !.profile = body]
             /\ users' = q.users
        ELSE IF Len(q.rows) = 0
        THEN /\ last' = [Resp("putProfile", uid, 401, "user_not_found_for_token",
                             "Please log in again.")
                           EXCEPT !.work = {"validate", "updateUser"},
                                  !.profile = body]
             /\ users' = q.users
        ELSE /\ last' = [Resp("putProfile", uid, 200, "", "")
                           EXCEPT !.work = {"validate", "updateUser"},
                                  !.profile = body,
                                  !.userId = q.rows[1],
                                  !.email = q.users[q.rows[1]].email]
             /\ users' = q.users
     /\ UNCHANGED <<nextId, interests, inflight, lastPut, interestRows, conn, hook>>

\* ------------------------------- part_000 / part_002: the draft's token check
\* A token the server's secret signs, unexpired, whose payload has no sub.
NoSubject == Jwt(JWT_SECRET, 0, FALSE)

\* The Authorization headers of the claims about verification.
VerifyTokens == Tokens \cup {NoSubject}

\* authMiddleware: the 401 it sends, or "next" with req.user = claims (the
\* payload as jwt.verify returns it; its sub is not looked at).
authMiddleware(token) ==
  IF token.kind = "none"
  THEN [pass |-> FALSE, sub |-> 0, error |-> "Missing token"]
  ELSE IF token.kind = "jwt" /\ token.secret = JWT_SECRET /\ ~token.expired
       THEN [pass |-> TRUE, sub |-> token.sub, error |-> ""]
       ELSE [pass |-> FALSE, sub |-> 0, error |-> "Invalid token"]

\* The draft's GET /users/me/interests: authMiddleware, then
\* getUserInterests(req.user.sub, pool).
GetMyInterests(token) ==
  LET auth == authMiddleware(token)
  IN /\ IF ~auth.pass
        THEN last' = Resp("getMyInterests", 0, 401, auth.error, "")
        ELSE \E c \in Conns :
               IF conn[c].tx = "aborted"
               THEN last' = [Resp("getMyInterests", auth.sub, 500, "load_failed", "")
                               EXCEPT !.work = {"readInterests"}]
               ELSE last' = [Resp("getMyInterests", auth.sub, 200, "", "") EXCEPT
                               !.work = {"readInterests"},
                               !.tags = SortedSeq(TagsOf(RowsOf(auth.sub, Visible(c))))]
     /\ UNCHANGED <<users, nextId, interests, inflight, lastPut, interestRows, conn, hook>>

\* ------------------------------------- my-frontend: hooks/useInterests.ts
\* keyOf = (s) => s.trim().toLowerCase()
keyOf(s) == toLowerCase(trim(s))

Tag_Hi == <<"H", "i">>

\* The lists apiGetInterests resolves with, the labels the user toggles, and
\* the userId the hook is called with.
HookLists == {<<>>, <<Tag_Hi>>, <<Tag_hi, Tag_go>>}
HookLabels == {Tag_HiPad, Tag_go}
HookUsers == {1, 2}

\* What localStorage holds for the selection when the hook is mounted.
StoredSelections == {{}, {Tag_go}}

\* The call that completed last: a load or a save, for the history.
NoEvent == [kind |-> "none", n |-> 0, userId |-> 0, tags |-> <<>>]

\* The hook before its component is mounted: the state of its useState
\* cells (loading, saving, selected), its userId, the number of runs of the
\* load effect (effects), the loads and the saves under way, each load with
\* the "cancelled" of its effect's closure.
Unmounted ==
  [mounted |-> FALSE, userId |-> 0, loading |-> FALSE, saving |-> FALSE,
   selected |-> {}, effects |-> 0, loads |-> {}, saveCalls |-> 0, saves |-> {},
   event |-> NoEvent]

apiVars == <<users, nextId, interests, inflight, last, lastPut, interestRows, conn>>

\* The load effect's body: setLoading(true) and the call of apiGetInterests.
Load(n, userId) == [n |-> n, userId |-> userId, cancelled |-> FALSE]

\* The load effect's cleanup, of the run n: cancelled = true.
Cleanup(loads, n) ==
  {IF l.n = n THEN [l EXCEPT !.cancelled = TRUE] ELSE l : l \in loads}

\* The first render: the useState initializers and the first run of the
\* effect.
Mount(userId, stored) ==
  /\ ~hook.mounted
  /\ hook.effects = 0
  /\ hook' = [hook EXCEPT !.mounted = TRUE, !.userId = userId,
                          !.selected = stored, !.effects = 1,
                          !.loading = TRUE, !.loads = {Load(1, userId)}]
  /\ UNCHANGED apiVars

\* A render with another userId: the cleanup of the effect's last run, and
\* its next run.
ChangeUser(userId) ==
  /\ hook.mounted
  /\ userId # hook.userId
  /\ hook.effects < MaxLoads
  /\ hook' = [hook EXCEPT !.userId = userId,
                          !.effects = @ + 1,
                          !.loading = TRUE,
                          !.loads = Cleanup(@, hook.effects)
                                      \cup {Load(hook.effects + 1, userId)}]
  /\ UNCHANGED apiVars

\* The component is unmounted: the cleanup of the effect's last run. State
\* updates of an unmounted component are dropped.
Unmount ==
  /\ hook.mounted
  /\ hook' = [hook EXCEPT !.mounted = FALSE,
                          !.loads = Cleanup(@, hook.effects)]
  /\ UNCHANGED apiVars

\* A load effect without the test of cancelled.
Cancelled_never(l) == FALSE

\* if (!cancelled)
Cancelled(l) == l.cancelled

\* await apiGetInterests(userId) resolves: the rest of the try block and the
\* finally block.
LoadResolves(l, its) ==
  /\ l \in hook.loads
  /\ hook' = [hook EXCEPT
                !.loads = @ \ {l},
                !.selected = IF ~Cancelled(l)
                             THEN {keyOf(its[i]) : i \in 1..Len(its)}
                             ELSE @,
                !.loading = IF ~Cancelled(l) THEN FALSE ELSE @,
                !.event = [kind |-> "loadResolved", n |-> l.n,
                           userId |-> l.userId, tags |-> its]]
  /\ UNCHANGED apiVars

\* await apiGetInterests(userId) rejects: the catch and the finally block.
LoadRejects(l) ==
  /\ l \in hook.loads
  /\ hook' = [hook EXCEPT
                !.loads = @ \ {l},
                !.loading = IF ~Cancelled(l) THEN FALSE ELSE @,
                !.event = [kind |-> "loadRejected", n |-> l.n,
                           userId |-> l.userId, tags |-> <<>>]]
  /\ UNCHANGED apiVars

toggleSelection(label) ==
  LET k == keyOf(label)
  IN /\ hook.mounted
     /\ hook' = [hook EXCEPT !.selected = IF k \in @ THEN @ \ {k} ELSE @ \cup {k}]
     /\ UNCHANGED apiVars

clearAll ==
  /\ hook.mounted
  /\ hook' = [hook EXCEPT !.selected = {}]
  /\ UNCHANGED apiVars

\* save, up to its await: setSaving(true) and the call of apiPutInterests.
save ==
  /\ hook.mounted
  /\ hook.saveCalls < MaxSaves
  /\ hook' = [hook EXCEPT !.saving = TRUE,
                          !.saveCalls = @ + 1,
                          !.saves = @ \cup {[n |-> hook.saveCalls + 1,
                                             userId |-> hook.userId,
                                             payload |-> hook.selected]}]
  /\ UNCHANGED apiVars

\* await apiPutInterests(userId, payload) resolves or rejects: the finally
\* block (and the return, or the exception passed on).
SaveSettles(s, kind) ==
  /\ s \in hook.saves
  /\ hook' = [hook EXCEPT
                !.saves = @ \ {s},
                !.saving = IF hook.mounted THEN FALSE ELSE @,
                !.event = [kind |-> kind, n |-> s.n, userId |-> s.userId,
                           tags |-> <<>>]]
  /\ UNCHANGED apiVars

SaveResolves(s) == SaveSettles(s, "saveResolved")
SaveThrows(s) == SaveSettles(s, "saveThrew")

Init ==
  /\ users = EmptyFn
  /\ nextId = 1
  /\ interests = EmptyFn
  /\ inflight = {}
  /\ last = Resp("none", 0, 0, "", "")
  /\ lastPut = EmptyFn
  /\ interestRows = {}
  /\ conn = [c \in Conns |-> IdleConn]
  /\ hook = Unmounted

\* The accounts of this specification are registered with well-formed
\* bodies (SpecAuth draws every body) and its lists are the CoreLists (SpecPut
\* draws every list).
Next ==
  \/ \E e \in {Email_A, Email_b} : Register(e, Pw_good)
  \/ \E u \in DOMAIN users : DeleteUser(u)
  \/ \E t \in Tokens : StartGetInterests(t)
  \/ \E t \in Tokens, raw \in CoreLists : StartPutInterests(t, raw)
  \/ \E t \in Tokens, q \in {NoLimit, LimitOf(1)} : StartGetMatches(t, q)
  \/ \E r \in inflight : FinishGetInterests(r)
  \/ \E r \in inflight : FinishPutInterests(r)
  \/ \E r \in inflight : FinishGetMatches(r)

Spec == Init /\ [][Next]_vars

\* ------------------------------------------------- claims about the API
\* a and b hold the same tags, each as often, whatever the order (b without
\* duplicates).
SameTags(a, b) == Len(a) = Len(b) /\ Range(a) = Range(b)

\* The users of a response's matches.
MatchIdsOf(matches) == {matches[i].id : i \in 1..Len(matches)}

\* The step that completes the pending request r with a 200.
Completes(r) ==
  /\ r \in inflight
  /\ inflight' = inflight \ {r}
  /\ last'.op = r.op /\ last'.uid = r.uid /\ last'.status = 200

\* C1: a GET /users/me/interests that follows a successful PUT of the raw list
\* L by the same user returns exactly normalize(L) (trimmed, lowercased,
\* deduplicated), in any order.
C1_PutThenGetReturnsNormalized ==
  (last.op = "getInterests" /\ last.status = 200 /\ last.uid \in DOMAIN lastPut)
    => SameTags(last.tags, Normalize(lastPut[last.uid]))

\* C2: when a user who has stored L1 replaces it by L2, what GET returns
\* right after is normalize(L2) only, with nothing left of L1.
C2_SecondReplaceLeavesOnlyL2 ==
  [][\A r \in inflight :
       (r.op = "putInterests" /\ r.uid \in DOMAIN interests /\ Completes(r))
         => SameTags(SelectInterests(r.uid)', Normalize(r.raw))]_vars

\* C5: a request with a valid body and a correctly signed, unexpired token
\* whose user has been deleted is answered 401.
C5_DeletedUserRejected ==
  (last.ghost /\ last.error # "invalid_body") => last.status = 401

\* C6: an interest read, interest write or match request with no token, with
\* a token that fails verification or with a token whose user does not exist
\* ends in a 401 before its body is validated and before the interest store
\* is read or written or the match query runs for it.
C6_GatedBeforeAnyWork ==
  (last.op \in {"getInterests", "putInterests", "getMatches"}
     /\ (last.uid = 0 \/ last.ghost))
    => /\ last.status = 401
       /\ last.work \cap {"validate", "readInterests", "writeInterests",
                          "matchQuery"} = {}

\* C10: for every returned candidate, overlap is the number of distinct tags
\* shared by the requester's and the candidate's stored arrays, and is the
\* length of the returned common list.
C10_OverlapIsIntersectionSize ==
  [][\A r \in inflight :
       (r.op = "getMatches" /\ Completes(r))
         => \A i \in 1..Len(last'.matches) :
              LET m == last'.matches[i]
              IN /\ m.overlap
                      = Cardinality(Range(r.data) \cap Range(interests[m.id]))
                 /\ m.overlap = Len(m.common)]_vars

\* C18: the response of a successful PUT /users/me/interests carries a saved
\* count, and the count is the number of distinct tags stored for the user by
\* the write.
C18_SavedCountIsStoredSize ==
  [][\A r \in inflight :
       (r.op = "putInterests" /\ Completes(r))
         => /\ last'.saved # NoSaved
            /\ last'.saved = Cardinality(Range(SelectInterests(r.uid)'))]_vars

\* A request of the interest or match routes that was refused for its token.
TokenFailure(r) ==
  /\ r.op \in {"getInterests", "putInterests", "getMatches"}
  /\ r.status = 401

\* C21: two requests in a row that are refused for their token (missing,
\* malformed, wrongly signed, expired, or of a user who is gone) get the same
\* status and the same error kind.
C21_TokenFailuresAlike ==
  [][(TokenFailure(last) /\ TokenFailure(last'))
       => /\ last'.status = last.status
          /\ last'.error = last.error]_vars

\* C25: GET /users/me/interests of an existing user is answered with status
\* 200, and with the empty list when the user has never saved interests or
\* has replaced them by the empty list.
C25_NeverSavedReadsEmpty ==
  [][/\ (last' # last /\ last'.op = "getInterests" /\ last'.uid # 0 /\ ~last'.ghost)
          => last'.status = 200
     /\ \A r \in inflight :
          (/\ r.op = "getInterests"
           /\ inflight' = inflight \ {r}
           /\ last'.op = r.op /\ last'.uid = r.uid
           /\ r.uid \in DOMAIN users
           /\ (r.uid \notin DOMAIN interests \/ interests[r.uid] = <<>>))
            => /\ last'.status = 200
               /\ last'.tags = <<>>]_vars

\* C25's case: a user who has no row of interests read them and got the
\* empty list, while another user had a list stored.
C25_Witness ==
  /\ last.op = "getInterests"
  /\ last.status = 200
  /\ last.tags = <<>>
  /\ last.uid \in DOMAIN users \ DOMAIN interests
  /\ \E v \in DOMAIN interests : interests[v] # <<>>

\* C28: every row of interests belongs to a user of the users table: deleting
\* a user removes the user's interests; a PUT /users/me/interests that passed
\* its existence check before the user was deleted and sends its upsert after
\* ends in an error and stores nothing; and every user a match response
\* returns is in the users table when the match query runs.
C28_InterestsOnlyOfExistingUsers ==
  [][/\ DOMAIN interests \subseteq DOMAIN users
     /\ DOMAIN interests' \subseteq DOMAIN users'
     /\ \A r \in inflight :
          (/\ r.op = "putInterests"
           /\ inflight' = inflight \ {r}
           /\ last'.op = r.op /\ last'.uid = r.uid
           /\ r.uid \notin DOMAIN users)
            => /\ last'.status >= 400
               /\ interests' = interests
     /\ \A r \in inflight :
          (r.op = "getMatches" /\ Completes(r))
            => MatchIdsOf(last'.matches) \subseteq DOMAIN users]_vars

\* C28's case: a user was deleted between the existence check and the upsert
\* of their PUT, the PUT ended in an error, and another user's interests are
\* stored.
C28_Witness ==
  /\ last.op = "putInterests"
  /\ last.status = 500
  /\ ~last.ghost
  /\ last.uid \notin DOMAIN users
  /\ last.uid \notin DOMAIN interests
  /\ \E v \in DOMAIN interests : v # last.uid

\* ---------------------------------------------------------- registration
\* Registrations with the API's router and with the draft's, and logins, with
\* every body the clients send.
NextRegister ==
  \/ \E e \in RawEmails, p \in Passwords : Register(e, p)
  \/ \E e \in RawEmails, p \in Passwords : Login(e, p)
  \/ \E e \in RawEmails, p \in Passwords : AuthRouterRegister(e, p)

SpecRegister == Init /\ [][NextRegister]_vars

\* A register body with an empty email, an empty password or a password of
\* fewer than 6 characters.
BadRegisterBody(r) ==
  \/ r.rawEmail = <<>>
  \/ r.password = <<>>
  \/ Len(r.password) < MinPasswordLen

\* C27: a register request with an empty email, an empty password or a
\* password shorter than 6 characters is answered 400 before any statement is
\* sent to the store, creates no user and gets no token; and the body of a
\* successful register or login response has the token and the user's id and
\* email, and nothing else.
C27_BadRegisterRejectedBeforeStore ==
  [][/\ (/\ last' # last
         /\ last'.op \in {"register", "authRouter.register"}
         /\ BadRegisterBody(last'))
          => /\ last'.status = 400
             /\ last'.work = {}
             /\ last'.token = NoToken
             /\ users' = users
     /\ (/\ last' # last
         /\ last'.op \in {"register", "authRouter.register", "login"}
         /\ last'.status \in {200, 201})
          => /\ last'.body = {"token", "user.id", "user.email"}
             /\ last'.token = sign(last'.userId)
             /\ last'.userId \in DOMAIN users'
             /\ users'[last'.userId].email = last'.email]_vars

\* ------------------------------------------------------------ the profile
\* Registered users with interests, who update their profiles with every
\* body, and are deleted.
InitProfile ==
  /\ users = [u \in 1..MaxUsers |->
                NewUser(normalizedEmail(trim(MatchEmails[((u - 1) % 3) + 1])),
                        bcryptHash(Pw_good))]
  /\ nextId = MaxUsers + 1
  /\ interests = [u \in 1..MaxUsers |-> <<Tag_hi>>]
  /\ inflight = {}
  /\ last = Resp("none", 0, 0, "", "")
  /\ lastPut = EmptyFn
  /\ interestRows = {}
  /\ conn = [c \in Conns |-> IdleConn]
  /\ hook = Unmounted

ProfileTokens == {NoToken} \cup {sign(u) : u \in 1..(nextId - 1)}

NextProfile ==
  \/ \E u \in DOMAIN users : DeleteUser(u)
  \/ \E t \in ProfileTokens, body \in ProfileBodies : PutProfile(t, body)

SpecProfile == InitProfile /\ [][NextProfile]_vars

\* No two users have the same email, or the same username.
UniqueUsers(table) ==
  \A u, v \in DOMAIN table :
    u # v => /\ table[u].email # table[v].email
             /\ table[u].username # NULL => table[u].username # table[v].username

\* C29: a PUT /users/me/profile changes no interests and no row of users but
\* that of the token's user, and of that row only the username, avatar_url and
\* telegram_handle its body gives; a valid request for a username that
\* another user holds is answered 409 username_taken and changes nothing; so
\* no two users ever have the same username or email.
C29_ProfileUpdateFrame ==
  [][/\ UniqueUsers(users')
     /\ (last' # last /\ last'.op = "putProfile") =>
          LET uid == last'.uid
              body == last'.profile
          IN /\ interests' = interests
             /\ DOMAIN users' = DOMAIN users
             /\ \A v \in DOMAIN users \ {uid} : users'[v] = users[v]
             /\ uid \in DOMAIN users =>
                  /\ users'[uid].email = users[uid].email
                  /\ users'[uid].password_hash = users[uid].password_hash
                  /\ ~body.username.given
                       => users'[uid].username = users[uid].username
                  /\ ~body.avatarDataUrl.given
                       => users'[uid].avatar_url = users[uid].avatar_url
                  /\ ~body.telegramHandle.given
                       => users'[uid].telegram_handle = users[uid].telegram_handle
                  /\ (/\ profilePutSchema(body)
                      /\ body.username.given
                      /\ \E v \in DOMAIN users \ {uid} :
                           users[v].username = body.username.v)
                       => /\ last'.status = 409
                          /\ last'.error = "username_taken"
                          /\ users' = users]_vars

\* C29's case: a user whose row has a username and an avatar asked for the
\* username of another user and was answered username_taken.
C29_Witness ==
  /\ last.op = "putProfile"
  /\ last.status = 409
  /\ last.error = "username_taken"
  /\ last.uid \in DOMAIN users
  /\ users[last.uid].username # NULL
  /\ users[last.uid].avatar_url # NULL
  /\ \E v \in DOMAIN users \ {last.uid} : users[v].username # NULL
  /\ last.uid \in DOMAIN interests

\* ------------------------------------------------------ the hook's calls
NextHook ==
  \/ \E u \in HookUsers, stored \in StoredSelections : Mount(u, stored)
  \/ \E u \in HookUsers : ChangeUser(u)
  \/ Unmount
  \/ \E l \in hook.loads, list \in HookLists : LoadResolves(l, list)
  \/ \E l \in hook.loads : LoadRejects(l)
  \/ \E label \in HookLabels : toggleSelection(label)
  \/ clearAll
  \/ save
  \/ \E s \in hook.saves : SaveResolves(s)
  \/ \E s \in hook.saves : SaveThrows(s)

SpecHook == Init /\ [][NextHook]_vars

\* The load is not the one of the effect's last run, or the component is
\* unmounted.
StaleLoad(l) == ~hook.mounted \/ l.n # hook.effects

\* C30: a load that completes after the userId it was started for was
\* replaced, or after the unmount, changes neither the selection nor the
\* loading flag; the response of the load of the current userId makes the
\* selection exactly the keys (trimmed, lowercased) of the server's tags,
\* whatever was toggled meanwhile, and clears the loading flag; and a save
\* that ends, by returning or by throwing, leaves the saving flag false.
C30_StaleLoadIgnored ==
  [][/\ \A l \in hook.loads, list \in HookLists :
          LoadResolves(l, list) =>
            IF StaleLoad(l)
            THEN /\ hook'.selected = hook.selected
                 /\ hook'.loading = hook.loading
            ELSE /\ hook'.selected = {toLowerCase(trim(list[i])) : i \in 1..Len(list)}
                 /\ ~hook'.loading
     /\ \A l \in hook.loads :
          (LoadRejects(l) /\ StaleLoad(l))
            => /\ hook'.selected = hook.selected
               /\ hook'.loading = hook.loading
     /\ \A s \in hook.saves :
          ((SaveResolves(s) \/ SaveThrows(s)) /\ hook.mounted) => ~hook'.saving]_vars

\* C30's case: the load of an earlier userId resolved with tags after the
\* userId had changed, while the load of the current userId is under way,
\* and the selection is not what that response held.
C30_Witness ==
  /\ hook.mounted
  /\ hook.event.kind = "loadResolved"
  /\ hook.event.userId # hook.userId
  /\ hook.event.n < hook.effects
  /\ hook.event.tags # <<>>
  /\ hook.loading
  /\ \E l \in hook.loads : l.n = hook.effects /\ ~l.cancelled
  /\ hook.selected # {keyOf(hook.event.tags[i]) : i \in 1..Len(hook.event.tags)}

\* ------------------------------------------------------------ verification
\* Accounts are registered, logged in to and deleted, and requests present
\* every kind of token to the API's requireAuth and to the draft's
\* authMiddleware.
NextVerify ==
  \/ \E e \in {Email_A, Email_b} : Register(e, Pw_good)
  \/ \E e \in {Email_A, Email_b} : Login(e, Pw_good)
  \/ \E u \in DOMAIN users : DeleteUser(u)
  \/ \E t \in VerifyTokens : StartGetInterests(t)
  \/ \E r \in inflight : FinishGetInterests(r)
  \/ \E t \in VerifyTokens : GetMyInterests(t)

SpecVerify == Init /\ [][NextVerify]_vars

\* The token is one that verification has to reject: malformed, signed with
\* another secret, past its expiry, or without a string subject.
Rejectable(t) ==
  \/ t.kind = "malformed"
  \/ t.kind = "jwt" /\ (t.secret # JWT_SECRET \/ t.expired \/ t.sub = 0)

\* The subject a step's request was verified to have (0: none).
VerifiedSubject ==
  IF inflight' # inflight /\ inflight' \ inflight # {}
  THEN (CHOOSE r \in inflight' \ inflight : TRUE).uid
  ELSE last'.uid

\* The step answers its request with a refusal, before any work for it.
Refused(error) ==
  /\ last'.status = 401
  /\ last'.error = error
  /\ last'.uid = 0
  /\ last'.work = {}
  /\ UNCHANGED <<users, interests, inflight, interestRows>>

\* C22: the token a register or login response carries verifies to the id of
\* the response's user; a request that presents the unexpired token issued
\* for user X is verified to be X's, whether or not X's row still exists; and
\* a request with a malformed token, a token of another secret, an expired
\* token or a token without a string subject is refused, always with the same
\* response and without a statement sent to the store.
C22_VerifyIsFunctionOfToken ==
  [][/\ (last' # last /\ last'.op \in {"register", "login"} /\ last'.status = 200)
          => verifyToken(last'.token) = last'.userId
     /\ \A t \in VerifyTokens :
          /\ (StartGetInterests(t) /\ t.kind # "none") =>
                /\ (\E x \in 1..(nextId - 1) : t = sign(x)) => VerifiedSubject = t.sub
                /\ Rejectable(t) => Refused("invalid_token")
          /\ (GetMyInterests(t) /\ t.kind # "none") =>
                /\ (\E x \in 1..(nextId - 1) : t = sign(x)) => VerifiedSubject = t.sub
                /\ Rejectable(t) => Refused("Invalid token")]_vars

\* ---------------------------------------------------------- the auth router
\* Registrations that overlap, and logins, with every body the clients send.
NextAuth ==
  \/ \E e \in RawEmails, p \in Passwords : StartRegister(e, p)
  \/ \E a \in inflight : FinishRegister(a)
  \/ \E e \in RawEmails, p \in Passwords : Login(e, p)

SpecAuth == Init /\ [][NextAuth]_vars

\* Two emails are equal after trimming and lowercasing.
SameEmail(x, y) == toLowerCase(trim(x)) = toLowerCase(trim(y))

\* The step in which the register request a gets its response.
Responds(a) ==
  /\ a \in inflight
  /\ a.op = "register"
  /\ inflight' = inflight \ {a}
  /\ last'.op = "register"
  /\ last'.rawEmail = a.rawEmail
  /\ last'.password = a.password

C8_ConcurrentRegisterOneWinner ==
  [][\A a \in inflight : Responds(a) =>
       LET before == {u \in DOMAIN users : SameEmail(users[u].email, a.rawEmail)}
           after == {u \in DOMAIN users' : SameEmail(users'[u].email, a.rawEmail)}
       IN /\ Cardinality(after) = 1
          /\ (last'.token # NoToken) <=> (before = {})
          /\ last'.token # NoToken =>
               /\ last'.userId \in after
               /\ verifyToken(last'.token) = last'.userId
          /\ last'.token = NoToken =>
               /\ last'.error = "email_taken"
               /\ last'.userId = 0
               /\ users' = users]_vars

\* C8's case: one registration has won while another one of the same
\* normalized email, which arrived before the winner's INSERT, is still waiting
\* for its own.
C8_Witness ==
  /\ last.op = "register"
  /\ last.status = 200
  /\ \E b \in inflight : /\ b.op = "register"
                         /\ b.rawEmail # last.rawEmail
                         /\ SameEmail(b.rawEmail, last.rawEmail)

\* A login with both fields filled in that was not let in.
LoginFailed(r) ==
  /\ r.op = "login"
  /\ r.token = NoToken
  /\ trim(r.rawEmail) # <<>>
  /\ r.password # <<>>

ResponseBody(r) == [status |-> r.status, error |-> r.error, message |-> r.message]

\* C9: two failed logins in a row, whichever of them met a registered email
\* with a wrong password and whichever an unregistered email, get the same
\* status, error kind and body.
C9_LoginFailuresAlike ==
  [][(LoginFailed(last) /\ LoginFailed(last'))
       => ResponseBody(last') = ResponseBody(last)]_vars

\* C9's case: a wrong password for a registered email was refused.
C9_Witness ==
  /\ LoginFailed(last)
  /\ last.status = 401
  /\ \E u \in DOMAIN users : /\ users[u].email = last.email
                             /\ ~bcryptCompare(last.password, users[u].password_hash)
  /\ \E e \in RawEmails : trim(e) # <<>> /\ ~EmailTaken(normalizedEmail(trim(e)))

\* ------------------------------------------------- PUT /users/me/interests
\* One account, which may be deleted, and every list a client sends.
NextPut ==
  \/ Register(Email_A, Pw_good)
  \/ \E u \in DOMAIN users : DeleteUser(u)
  \/ \E t \in Tokens, raw \in RawLists : StartPutInterests(t, raw)
  \/ \E r \in inflight : FinishPutInterests(r)

SpecPut == Init /\ [][NextPut]_vars

\* The list has more than 500 tags, or a tag longer than 64 characters after
\* trimming.
Oversized(raw) ==
  \/ Len(raw) > MaxTags
  \/ \E i \in 1..Len(raw) : Len(trim(raw[i])) > MaxTagLen

\* C19: an authenticated PUT /users/me/interests with an oversized list never
\* gets as far as the store; it is answered 400 invalid_body before any
\* statement is sent, and the stored interests are what they were.
C19_OversizedRejectedBeforeStore ==
  [][/\ \A r \in inflight' : r.op = "putInterests" => ~Oversized(r.raw)
     /\ (/\ last' # last
         /\ last'.op = "putInterests"
         /\ last'.uid # 0
         /\ Oversized(last'.raw))
          => /\ last'.status = 400
             /\ last'.error = "invalid_body"
             /\ last'.work \cap {"selectUser", "writeInterests"} = {}
             /\ interests' = interests]_vars

\* C19's case: a user with stored interests sent a list of more than 500
\* tags, was answered 400, and the stored interests are still there.
C19_Witness ==
  /\ last.op = "putInterests"
  /\ last.status = 400
  /\ Len(last.raw) > MaxTags
  /\ last.uid \in DOMAIN interests
  /\ interests[last.uid] # <<>>

\* The InterestSet constraints on a stored list.
InterestSetOk(list) ==
  /\ Len(list) <= MaxTags
  /\ \A i \in 1..Len(list) :
       /\ Len(list[i]) >= 1
       /\ Len(list[i]) <= MaxTagLen
       /\ trim(list[i]) = list[i]
       /\ toLowerCase(list[i]) = list[i]
  /\ \A i, j \in 1..Len(list) : i # j => list[i] # list[j]

\* C23: whatever replace calls were made, accepted or refused, every stored
\* interest set has at most 500 tags, each non-empty, trimmed, lowercase and
\* at most 64 characters long, and none of them twice.
C23_StoredSetsWellFormed ==
  \A u \in DOMAIN interests : InterestSetOk(interests[u])

\* A tag that is not empty after trimming, and a list without the others.
NonEmptyTag(t) == trim(t) # <<>>
DropEmpties(L) == SelectSeq(L, NonEmptyTag)

\* The list has an empty or whitespace-only entry next to a valid tag.
EmptyNextToValid(L) ==
  /\ \E i \in 1..Len(L) : ~NonEmptyTag(L[i])
  /\ \E i \in 1..Len(L) : NonEmptyTag(L[i])
  /\ ~Oversized(L)

\* C24: a PUT /users/me/interests of an existing user whose list has empty
\* or whitespace-only entries next to valid tags succeeds, and what is then
\* stored is the normalization of the list without the empty entries.
C24_EmptyEntriesDropped ==
  [][(/\ last' # last
      /\ last'.op = "putInterests"
      /\ last'.uid # 0
      /\ ~last'.ghost
      /\ EmptyNextToValid(last'.raw))
       => /\ last'.status = 200
          /\ last'.uid \in DOMAIN interests'
          /\ SameTags(interests'[last'.uid],
                      Normalize(DropEmpties(last'.raw)))]_vars

\* ------------------------------------------------------- the match query
\* The stores the match query is run on: MatchUsers registered users, each
\* with or without a username (usernames are UNIQUE; the first user has
\* none) and with or without a
\* row of interests, which holds a list PUT /users/me/interests accepts.
Tag_ab == <<"a", "b">>
Name_a == <<"a">>
Name_b == <<"b">>

MatchLists ==
  {<<>>, <<Tag_go>>, <<Tag_hi, Tag_hi>>, <<Tag_go, Tag_hi>>, <<Tag_hi, Tag_ab>>}

MatchIds == 1..MatchUsers

Usernames ==
  {f \in [MatchIds -> {NULL, Name_a, Name_b}] :
     /\ f[1] = NULL
     /\ \A u, v \in MatchIds : (u # v /\ f[u] # NULL) => f[u] # f[v]}

\* The Authorization headers of its requests: none, or a token the server
\* issued to one of the users.
MatchTokens == {NoToken} \cup {sign(u) : u \in DOMAIN users}

InitMatch ==
  /\ \E f \in Usernames :
       users = [u \in MatchIds |->
                  [email |-> normalizedEmail(trim(MatchEmails[((u - 1) % 3) + 1])),
                   password_hash |-> bcryptHash(Pw_good),
                   username |-> f[u],
                   avatar_url |-> NULL, telegram_handle |-> NULL]]
  /\ nextId = MatchUsers + 1
  /\ \E saved \in SUBSET MatchIds : interests \in [saved -> MatchLists]
  /\ inflight = {}
  /\ last = Resp("none", 0, 0, "", "")
  /\ lastPut = EmptyFn
  /\ interestRows = {}
  /\ conn = [c \in Conns |-> IdleConn]
  /\ hook = Unmounted

NextMatch ==
  \/ \E t \in MatchTokens, q \in LimitQueries : StartGetMatches(t, q)
  \/ \E r \in inflight : FinishGetMatches(r)

SpecMatch == InitMatch /\ [][NextMatch]_vars

\* The other users whose stored list shares a tag with the list my.
Qualifying(uid, my) ==
  {c \in DOMAIN interests \ {uid} : Range(interests[c]) \cap Range(my) # {}}

\* C11: every candidate a match request returns shares a tag with the
\* requester, has overlap >= 1 and is not the requester; and when no more
\* users qualify than the limit allows, every other user who shares a tag
\* with the requester is returned.
C11_MatchesAreTheSharingOthers ==
  [][\A r \in inflight :
       (r.op = "getMatches" /\ Completes(r))
         => /\ \A i \in 1..Len(last'.matches) :
                 /\ last'.matches[i].id # r.uid
                 /\ last'.matches[i].overlap >= 1
                 /\ last'.matches[i].id \in Qualifying(r.uid, r.data)
            /\ Cardinality(Qualifying(r.uid, r.data)) <= r.limit
                 => MatchIdsOf(last'.matches) = Qualifying(r.uid, r.data)]_vars

\* C11's case: one user was returned while another user, who has interests
\* but none of the requester's, was left out although the limit had room.
C11_Witness ==
  /\ last.op = "getMatches"
  /\ last.status = 200
  /\ Len(last.matches) = 1
  /\ last.limit > 1
  /\ \E c \in DOMAIN interests \ {last.uid} :
       /\ interests[c] # <<>>
       /\ Range(interests[c]) \cap Range(last.tags) = {}
       /\ c \notin MatchIdsOf(last.matches)

\* The documented ranking puts a before b: larger overlap first; with equal
\* overlap the display name ascending, or the user id ascending when neither
\* has a display name.
RankedBefore(a, b) ==
  \/ a.overlap > b.overlap
  \/ /\ a.overlap = b.overlap
     /\ IF a.username # NULL /\ b.username # NULL
        THEN ~StrLess(b.username, a.username)
        ELSE IF a.username = NULL /\ b.username = NULL
        THEN a.id < b.id
        ELSE TRUE

\* C12: the matches of a response are in the documented ranking.
C12_MatchesRanked ==
  [][\A r \in inflight :
       (r.op = "getMatches" /\ Completes(r))
         => \A i, j \in 1..Len(last'.matches) :
              i < j => RankedBefore(last'.matches[i], last'.matches[j])]_vars

\* A response of the match query (not the short cut for a requester without
\* interests).
Ranked(resp) ==
  /\ resp.op = "getMatches"
  /\ resp.status = 200
  /\ "matchQuery" \in resp.work

\* C13: two match requests in a row by the same requester with the same
\* limit, with the users and their interests unchanged between them, return
\* the same candidates in the same order.
C13_MatchesDeterministic ==
  [][(/\ Ranked(last) /\ Ranked(last')
      /\ last'.uid = last.uid
      /\ last'.limit = last.limit
      /\ last'.tags = last.tags
      /\ UNCHANGED <<users, interests>>)
       => last'.matches = last.matches]_vars

\* C14: a match response has min(limit, number of qualifying candidates)
\* entries, and they are the top of the documented ranking: every returned
\* candidate is ranked before every qualifying candidate that was cut off.
C14_TruncationKeepsTop ==
  [][\A r \in inflight :
       (r.op = "getMatches" /\ Completes(r))
         => /\ Len(last'.matches)
                 = Min(r.limit, Cardinality(Qualifying(r.uid, r.data)))
            /\ \A i \in 1..Len(last'.matches) :
                 \A c \in MatchRows(r.uid, r.data) :
                   c.id \notin MatchIdsOf(last'.matches)
                     => RankedBefore(last'.matches[i], c)]_vars

\* C15: the limit a match request runs its query with is an integer in
\* 1..100: 20 for a missing or non-numeric limit parameter, 100 for one above
\* 100, 1 for one below 1; and a response never has more entries than it.
C15_LimitClamped ==
  /\ \A r \in inflight :
       r.op = "getMatches" =>
         /\ r.limit \in 1..MaxLimit
         /\ r.raw.nan => r.limit = DefaultLimit
         /\ (~r.raw.nan /\ r.raw.n > MaxLimit) => r.limit = MaxLimit
         /\ (~r.raw.nan /\ r.raw.n < 1) => r.limit = 1
  /\ Ranked(last) => Len(last.matches) <= last.limit

\* C16: a match request of a requester whose stored list is empty, or who has
\* no stored list, never gets as far as the match query; it is answered at
\* once, with status 200 and the empty list.
C16_EmptyRequesterShortCut ==
  [][/\ \A r \in inflight' : r.op = "getMatches" => Len(r.data) > 0
     /\ (/\ last' # last
         /\ last'.op = "getMatches"
         /\ last'.uid # 0
         /\ inflight' = inflight)
          => /\ SelectInterests(last'.uid) = <<>>
             /\ last'.status = 200
             /\ last'.matches = <<>>
             /\ "matchQuery" \notin last'.work]_vars

\* C16's case: a user who never saved interests asked for matches and got
\* the empty list without the match query, while another user had interests.
C16_Witness ==
  /\ last.op = "getMatches"
  /\ last.status = 200
  /\ last.uid \in DOMAIN users \ DOMAIN interests
  /\ last.matches = <<>>
  /\ "matchQuery" \notin last.work
  /\ \E c \in DOMAIN interests : interests[c] # <<>>

NextPool ==
  \/ Register(Email_A, Pw_good)
  \/ \E u \in DOMAIN users, list \in PoolLists : StartPutUserInterests(u, list)
  \/ \E r \in inflight : PutUserInterestsDelete(r)
  \/ \E r \in inflight : PutUserInterestsInsert(r)
  \/ \E r \in inflight : PutUserInterestsCommit(r)
  \/ \E r \in inflight : PutUserInterestsRollback(r)
  \/ \E u \in DOMAIN users : GetUserInterests(u)

SpecPool == Init /\ [][NextPool]_vars

\* Several registered users, whose calls of putUserInterests overlap.
InitPoolUsers ==
  /\ users = [u \in 1..MaxUsers |->
                [email |-> normalizedEmail(trim(MatchEmails[((u - 1) % 3) + 1])),
                 password_hash |-> bcryptHash(Pw_good),
                 username |-> NULL,
                 avatar_url |-> NULL, telegram_handle |-> NULL]]
  /\ nextId = MaxUsers + 1
  /\ interests = EmptyFn
  /\ inflight = {}
  /\ last = Resp("none", 0, 0, "", "")
  /\ lastPut = EmptyFn
  /\ interestRows = {}
  /\ conn = [c \in Conns |-> IdleConn]
  /\ hook = Unmounted

\* The list each of them sends, every time.
ListOf(u) == IF u = 1 THEN <<Tag_hi>> ELSE <<Tag_go>>

NextPoolUsers ==
  \/ \E u \in DOMAIN users : StartPutUserInterests(u, ListOf(u))
  \/ \E r \in inflight : PutUserInterestsDelete(r)
  \/ \E r \in inflight : PutUserInterestsInsert(r)
  \/ \E r \in inflight : PutUserInterestsCommit(r)
  \/ \E r \in inflight : PutUserInterestsRollback(r)

SpecPoolUsers == InitPoolUsers /\ [][NextPoolUsers]_vars

\* The step is a statement of the putUserInterests call r.
StatementOf(r) ==
  \/ PutUserInterestsDelete(r)
  \/ PutUserInterestsInsert(r)
  \/ PutUserInterestsCommit(r)
  \/ PutUserInterestsRollback(r)

\* C26: no statement of a replace for user u, whether the replace succeeds
\* or fails and whatever replaces for other users it overlaps with, changes
\* the interests stored for a user v other than u.
C26_ReplaceLeavesOthersAlone ==
  [][\A r \in inflight :
       StatementOf(r)
         => \A v \in DOMAIN users \ {r.uid} :
              RowsOf(v, interestRows') = RowsOf(v, interestRows)]_vars

\* The step in which a getUserInterests call for uid gets its rows.
Reads(uid) ==
  /\ last'.op = "getUserInterests"
  /\ last'.uid = uid
  /\ last'.status = 200
  /\ UNCHANGED <<inflight, interestRows, conn>>

\* C3: while a single replace of a user's interests is under way (no other
\* replace overlaps it, no transaction was open when it began), every read of
\* that user's interests returns the set stored before the replace or the set
\* of the replace's list.
C3_ReplaceAllOrNothingForReaders ==
  [][\A r \in inflight :
       (r.op = "putUserInterests" /\ PoolCalls = {r} /\ r.overlaps = {}
          /\ r.clean /\ Reads(r.uid))
       => Range(last'.tags) \in {r.before, Range(r.list)}]_vars

\* C4: when the second of two overlapping replaces of a user's interests
\* reports success after the first one has, the set stored for the user is
\* the normalized list of one of the two.
C4_ConcurrentReplacesLastWriteWins ==
  [][\A r \in inflight :
       (r.op = "putUserInterests" /\ r.pc = "COMMIT"
          /\ inflight' = {} /\ last'.status = 200 /\ last'.tags = r.list
          /\ Cardinality(r.overlaps) = 1 /\ r.succeeded = r.overlaps)
       => \E list \in r.overlaps \cup {r.list} :
            TagsOf(RowsOf(r.uid, interestRows')) = Range(Normalize(list))]_vars

\* C20: a replace that no other replace overlaps and that fails (a statement
\* failed, the call sent its ROLLBACK and threw) leaves the user's stored
\* interests as they were when it began.
C20_FailedReplaceLeavesStoreAsBefore ==
  [][\A r \in inflight :
       (/\ r.op = "putUserInterests" /\ r.pc = "ROLLBACK"
        /\ r.overlaps = {}
        /\ inflight' = inflight \ {r}
        /\ last'.op = r.op /\ last'.status = 500)
         => TagsOf(RowsOf(r.uid, interestRows')) = r.before]_vars
====
